---- MODULE Spec2Model ----
(***************************************************************************)
(* Model of save_charts.py: a parquet file of job postings is loaded into  *)
(* a DataFrame and five aggregations are computed from it one after the    *)
(* other, each followed by the rendering and saving of one chart.          *)
(*                                                                         *)
(* Strings that the code transforms or orders (titles, skills, countries)  *)
(* are tuples of one-character strings, so that lower-casing, stripping,   *)
(* substring search and lexicographic ordering are computed.  A nullable   *)
(* cell is NaN (the empty tuple) or Val(x) (a one-element tuple).          *)
(***************************************************************************)
EXTENDS Integers, Sequences, FiniteSets, TLC

----------------------------------------------------------------------------
(* Bounds of the input families. *)

MaxRecords ==
    3

MaxExtra ==
    2

MaxPayRecords ==
    3

----------------------------------------------------------------------------
(* Characters and strings. *)

\* The characters used, in code-point order (Python compares str by code point).
Chars ==
    <<" ", "A", "B", "C", "D", "E", "F", "G", "H", "I", "J", "K", "L", "M", "N", "O", "P", "Q", "R", "S", "T", "U", "V", "W", "X", "Y", "Z",
      "a", "b", "c", "d", "e", "f", "g", "h", "i", "j", "k", "l", "m", "n", "o", "p", "q", "r", "s", "t", "u", "v", "w", "x", "y", "z">>

\* The rank of each character, tabulated once.
OrdTable ==
    [ch \in {Chars[i] : i \in 1..Len(Chars)} |->
        CHOOSE i \in 1..Len(Chars) : Chars[i] = ch] @@ <<>>

Ord(ch) ==
    OrdTable[ch]

\* str.lower() on one character: "A".."Z" map to "a".."z".
LowerChar(ch) ==
    IF Ord(ch) \in 2..27 THEN Chars[Ord(ch) + 26] ELSE ch

Lower(s) ==
    [i \in 1..Len(s) |-> LowerChar(s[i])] \o <<>>

IsSpace(ch) ==
    ch = " "

\* str.strip(): drop the leading and the trailing whitespace.
Strip(s) ==
    LET keep == {i \in 1..Len(s) : ~IsSpace(s[i])}
    IN  IF keep = {} THEN <<>>
        ELSE LET lo == CHOOSE i \in keep : \A j \in keep : i <= j
                 hi == CHOOSE i \in keep : \A j \in keep : j <= i
             IN  SubSeq(s, lo, hi)

\* s < t in Python's str ordering.
StrLess(s, t) ==
    LET n == IF Len(s) <= Len(t) THEN Len(s) ELSE Len(t)
        diff == {i \in 1..n : s[i] # t[i]}
    IN  IF diff = {} THEN Len(s) < Len(t)
        ELSE LET k == CHOOSE i \in diff : \A j \in diff : i <= j
             IN  Ord(s[k]) < Ord(t[k])

\* re.search(pat, s, IGNORECASE) for a pattern without metacharacters.
ContainsNoCase(s, pat) ==
    \E k \in 0..(Len(s) - Len(pat)) :
        \A i \in 1..Len(pat) : LowerChar(s[k + i]) = LowerChar(pat[i])

UnitedStates ==
    <<"U", "n", "i", "t", "e", "d", " ", "S", "t", "a", "t", "e", "s">>
Canada ==
    <<"C", "a", "n", "a", "d", "a">>
DataAnalyst ==
    <<"D", "a", "t", "a", " ", "A", "n", "a", "l", "y", "s", "t">>
DataEngineer ==
    <<"D", "a", "t", "a", " ", "E", "n", "g", "i", "n", "e", "e", "r">>
DataScientist ==
    <<"D", "a", "t", "a", " ", "S", "c", "i", "e", "n", "t", "i", "s", "t">>
BusinessAnalyst ==
    <<"B", "u", "s", "i", "n", "e", "s", "s", " ", "A", "n", "a", "l", "y", "s", "t">>
CloudEngineer ==
    <<"C", "l", "o", "u", "d", " ", "E", "n", "g", "i", "n", "e", "e", "r">>
MLEngineer ==
    <<"M", "L", " ", "E", "n", "g", "i", "n", "e", "e", "r">>
SeniorDataAnalyst ==
    <<"S", "e", "n", "i", "o", "r", " ", "D", "a", "t", "a", " ", "A", "n", "a", "l", "y", "s", "t">>
SeniorDataEngineer ==
    <<"S", "e", "n", "i", "o", "r", " ", "D", "a", "t", "a", " ", "E", "n", "g", "i", "n", "e", "e", "r">>
SeniorDataScientist ==
    <<"S", "e", "n", "i", "o", "r", " ", "D", "a", "t", "a", " ", "S", "c", "i", "e", "n", "t", "i", "s", "t">>
SoftwareEngineer ==
    <<"S", "o", "f", "t", "w", "a", "r", "e", " ", "E", "n", "g", "i", "n", "e", "e", "r">>
DataArchitect ==
    <<"D", "a", "t", "a", " ", "A", "r", "c", "h", "i", "t", "e", "c", "t">>
BIDeveloper ==
    <<"B", "I", " ", "D", "e", "v", "e", "l", "o", "p", "e", "r">>
RawLeadDataAnalyst ==
    <<"L", "e", "a", "d", " ", "D", "A", "T", "A", " ", "A", "n", "a", "l", "y", "s", "t", " ", "I", "I">>
RawMarketing ==
    <<"M", "a", "r", "k", "e", "t", "i", "n", "g", " ", "D", "a", "t", "a", " ", "a", "n", "a", "l", "y", "s", "t">>
RawEngineer ==
    <<"D", "a", "t", "a", " ", "E", "n", "g", "i", "n", "e", "e", "r">>
sk_sql ==
    <<"s", "q", "l">>
sk_SQLpadded ==
    <<" ", "S", "Q", "L", " ">>
sk_excel ==
    <<"e", "x", "c", "e", "l">>
sk_python ==
    <<"p", "y", "t", "h", "o", "n">>
sk_PythonCap ==
    <<"P", "y", "t", "h", "o", "n">>
sk_aws ==
    <<"a", "w", "s">>
sk_spark ==
    <<"s", "p", "a", "r", "k">>
sk_java ==
    <<"j", "a", "v", "a">>
sk_r ==
    <<"r">>
sk_go ==
    <<"g", "o">>
sk_sas ==
    <<"s", "a", "s">>
sk_git ==
    <<"g", "i", "t">>
sk_gcp ==
    <<"g", "c", "p">>
sk_vba ==
    <<"v", "b", "a">>
sk_dax ==
    <<"d", "a", "x">>
sk_c ==
    <<"c">>
sk_tableau ==
    <<"t", "a", "b", "l", "e", "a", "u">>

\* The pattern of line 153.
data_analyst_pat ==
    <<"d", "a", "t", "a", " ", "a", "n", "a", "l", "y", "s", "t">>

----------------------------------------------------------------------------
(* Nullable cells. *)

NaN ==
    <<>>

Val(x) ==
    <<x>>

IsNull(cell) ==
    cell = NaN

Get(cell) ==
    cell[1]

----------------------------------------------------------------------------
(* Sequences. *)

\* The tuple with the elements of the sequence f, each evaluated once.
Tuple(f) ==
    f \o <<>>

Range(s) ==
    {s[i] : i \in 1..Len(s)}

Min(a, b) ==
    IF a <= b THEN a ELSE b

Head_n(s, n) ==
    SubSeq(s, 1, Min(n, Len(s)))

RECURSIVE SelectIdx(_, _, _)
\* The indices of 1..n, ascending, that are in the set keep.
SelectIdx(keep, i, n) ==
    IF i > n THEN <<>>
    ELSE IF i \in keep THEN <<i>> \o SelectIdx(keep, i + 1, n)
    ELSE SelectIdx(keep, i + 1, n)

\* Boolean indexing: the elements at the indices in keep, in order.
Take(s, keep) ==
    LET idx == SelectIdx(keep, 1, Len(s))
    IN  Tuple([p \in 1..Len(idx) |-> s[idx[p]]])

RECURSIVE SumSeq(_)
SumSeq(s) ==
    IF s = <<>> THEN 0 ELSE Head(s) + SumSeq(Tail(s))

RECURSIVE Flatten(_)
Flatten(ss) ==
    IF ss = <<>> THEN <<>> ELSE Head(ss) \o Flatten(Tail(ss))

\* A stable sort: equal elements keep their order.  numpy's default
\* "quicksort" is an insertion sort below 17 elements, hence stable for every
\* table of this model; lexsort (several sort columns) is stable at any size.
\* less[a, b] is the order of the sort key, given for the elements of s.
StableSort(s, less) ==
    LET n == Len(s)
        pos(i) == 1 + Cardinality({j \in 1..n :
                        \/ less[s[j], s[i]]
                        \/ ~less[s[i], s[j]] /\ j < i})
        rank == Tuple([i \in 1..n |-> pos(i)])
    IN  Tuple([p \in 1..n |-> s[CHOOSE i \in 1..n : rank[i] = p]])

\* The distinct elements of s in order of first appearance.
FirstSeen(s) ==
    Take(s, {i \in 1..Len(s) : \A j \in 1..(i - 1) : s[j] # s[i]})

----------------------------------------------------------------------------
(* DataFrames: a set of column names and a sequence of rows.  A row has a   *)
(* field for every column the run can hold; a column that a frame lacks is  *)
(* NaN in each of its rows and absent from cols.                            *)

FileCols ==
    {"job_country", "job_posted_date", "job_title", "job_title_short",
     "job_skills", "salary_year_avg"}

Rec(country, date, raw, short, skills, salary) ==
    [job_country |-> country, job_posted_date |-> date, job_title |-> raw,
     job_title_short |-> short, job_skills |-> skills,
     salary_year_avg |-> salary, month |-> NaN, month_num |-> NaN]

Date(y, m, d) ==
    Val([year |-> y, month |-> m, day |-> d])

Frame(cols, rows) ==
    [cols |-> cols, rows |-> rows]

EmptyFrame ==
    Frame({}, <<>>)

\* frame[mask]: the rows at the indices in keep, the same columns.
Filter(frame, keep) ==
    Frame(frame.cols, Take(frame.rows, keep))

\* strftime('%b') in the C locale.
MonthAbbr ==
    <<"Jan", "Feb", "Mar", "Apr", "May", "Jun",
      "Jul", "Aug", "Sep", "Oct", "Nov", "Dec">>

\* Series.dt.strftime('%b'): NaT gives NaN.
StrftimeB(cell) ==
    IF IsNull(cell) THEN NaN ELSE Val(MonthAbbr[Get(cell).month])

\* Series.dt.month: NaT gives NaN.
DtMonth(cell) ==
    IF IsNull(cell) THEN NaN ELSE Val(Get(cell).month)

\* A mask that keeps every record with a country, whichever it is.
CountryMaskAnyCountry(frame) ==
    {i \in 1..Len(frame.rows) : ~IsNull(frame.rows[i].job_country)}

\* df_US['job_country'] == 'United States': NaN compares unequal.
CountryMask(frame) ==
    {i \in 1..Len(frame.rows) : frame.rows[i].job_country = Val(UnitedStates)}

\* Lines 18-19: the two derived columns, assigned into the frame.
AssignMonthColumns(frame) ==
    Frame(frame.cols \cup {"month", "month_num"},
          Tuple([i \in 1..Len(frame.rows) |->
              [frame.rows[i] EXCEPT
                  !.month = StrftimeB(frame.rows[i].job_posted_date),
                  !.month_num = DtMonth(frame.rows[i].job_posted_date)]]))

\* A monthly count reindexed over the twelve months, absent months at zero.
MonthlyGroupSizeAllMonths(rows) ==
    Tuple([m \in 1..12 |->
        [month_num |-> m, month |-> MonthAbbr[m],
         postings |-> Cardinality({i \in 1..Len(rows) : rows[i].month_num = Val(m)})]])

\* groupby(['month_num','month']).size().reset_index(name='postings'):
\* rows with a NaN key are dropped, the groups come out sorted by key.  The
\* label is a function of the number, so the number alone orders the keys.
MonthlyGroupSize(rows) ==
    LET live == Take(rows, {i \in 1..Len(rows) :
                    ~IsNull(rows[i].month_num) /\ ~IsNull(rows[i].month)})
        keyOf(row) == <<Get(row.month_num), Get(row.month)>>
        keys == FirstSeen(Tuple([i \in 1..Len(live) |-> keyOf(live[i])]))
        less == [a \in Range(keys), b \in Range(keys) |-> a[1] < b[1]]
        sorted == StableSort(keys, less)
    IN  Tuple([k \in 1..Len(sorted) |->
            [month_num |-> sorted[k][1], month |-> sorted[k][2],
             postings |-> Cardinality({i \in 1..Len(live) :
                                          keyOf(live[i]) = sorted[k]})]])

\* The monthly table sorted by count, largest first.
SortByPostingsDesc(tab) ==
    LET less == [a \in Range(tab), b \in Range(tab) |->
                a.postings > b.postings]
    IN  StableSort(tab, less)

\* .sort_values('month_num')
SortByMonthNum(tab) ==
    LET less == [a \in Range(tab), b \in Range(tab) |->
                a.month_num < b.month_num]
    IN  StableSort(tab, less)

\* Counts in order of first appearance, not sorted by count.
ValueCountsUnsorted(cells) ==
    LET live == Take(cells, {i \in 1..Len(cells) : ~IsNull(cells[i])})
        keys == FirstSeen(Tuple([i \in 1..Len(live) |-> Get(live[i])]))
    IN  Tuple([k \in 1..Len(keys) |->
            [job_title_short |-> keys[k],
             count |-> Cardinality({i \in 1..Len(live) : Get(live[i]) = keys[k]})]])

\* Series.value_counts(): NaN dropped, distinct values counted in order of
\* first appearance, then sorted by count, descending.
ValueCounts(cells) ==
    LET live == Take(cells, {i \in 1..Len(cells) : ~IsNull(cells[i])})
        keys == FirstSeen(Tuple([i \in 1..Len(live) |-> Get(live[i])]))
        tab == Tuple([k \in 1..Len(keys) |->
                   [job_title_short |-> keys[k],
                    count |-> Cardinality({i \in 1..Len(live) :
                                             Get(live[i]) = keys[k]})]])
        less == [a \in Range(tab), b \in Range(tab) |-> a.count > b.count]
    IN  StableSort(tab, less)

\* .sort_values(ascending=False) on a Series of counts.
SortCountsDesc(tab) ==
    LET less == [a \in Range(tab), b \in Range(tab) |->
                a.count > b.count]
    IN  StableSort(tab, less)

TitleShortColumn(frame) ==
    Tuple([i \in 1..Len(frame.rows) |-> frame.rows[i].job_title_short])

\* Series.isin(values): NaN is in no list of strings.
IsIn(cell, values) ==
    ~IsNull(cell) /\ Get(cell) \in Range(values)

TitleIsInMask(frame, values) ==
    {i \in 1..Len(frame.rows) : IsIn(frame.rows[i].job_title_short, values)}

\* An expansion that turns an empty list into a row with an empty skill text.
ExplodeRowEmptyAsBlank(row) ==
    IF IsNull(row.job_skills)
    THEN <<row>>
    ELSE IF Get(row.job_skills) = <<>>
    THEN <<[row EXCEPT !.job_skills = Val(<<>>)]>>
    ELSE Tuple([k \in 1..Len(Get(row.job_skills)) |->
             [row EXCEPT !.job_skills = Val(Get(row.job_skills)[k])]])

\* One row of explode('job_skills'): a row per element of the list; a NaN
\* cell or an empty list gives one row whose job_skills is NaN.
ExplodeRow(row) ==
    IF IsNull(row.job_skills) \/ Get(row.job_skills) = <<>>
    THEN <<[row EXCEPT !.job_skills = NaN]>>
    ELSE Tuple([k \in 1..Len(Get(row.job_skills)) |->
             [row EXCEPT !.job_skills = Val(Get(row.job_skills)[k])]])

Explode(frame) ==
    Frame(frame.cols,
          Flatten(Tuple([i \in 1..Len(frame.rows) |-> ExplodeRow(frame.rows[i])])))

\* groupby(['job_title_short','job_skills']).size().reset_index(name='count')
SkillGroupSize(rows) ==
    LET live == Take(rows, {i \in 1..Len(rows) :
                    ~IsNull(rows[i].job_title_short) /\ ~IsNull(rows[i].job_skills)})
        keyOf(row) == <<Get(row.job_title_short), Get(row.job_skills)>>
        keys == FirstSeen(Tuple([i \in 1..Len(live) |-> keyOf(live[i])]))
        less == [a \in Range(keys), b \in Range(keys) |->
                    \/ StrLess(a[1], b[1])
                    \/ a[1] = b[1] /\ StrLess(a[2], b[2])]
        sorted == StableSort(keys, less)
    IN  Tuple([k \in 1..Len(sorted) |->
            [job_title_short |-> sorted[k][1], job_skills |-> sorted[k][2],
             count |-> Cardinality({i \in 1..Len(live) :
                                       keyOf(live[i]) = sorted[k]})]])

\* The ranking sort with the count ascending: ascending=[True, True].
SortTitleThenCountAsc(tab) ==
    LET less == [a \in Range(tab), b \in Range(tab) |->
                \/ StrLess(a.job_title_short, b.job_title_short)
                      \/ /\ a.job_title_short = b.job_title_short
                         /\ a.count < b.count]
    IN  StableSort(tab, less)

\* sort_values(['job_title_short','count'], ascending=[True, False])
SortTitleThenCountDesc(tab) ==
    LET less == [a \in Range(tab), b \in Range(tab) |->
                \/ StrLess(a.job_title_short, b.job_title_short)
                      \/ /\ a.job_title_short = b.job_title_short
                         /\ a.count > b.count]
    IN  StableSort(tab, less)

\* groupby('job_title_short', group_keys=False).head(n): the first n rows of
\* each title, the order of the rows kept.
GroupHead(tab, n) ==
    Take(tab, {i \in 1..Len(tab) :
        Cardinality({j \in 1..(i - 1) :
            tab[j].job_title_short = tab[i].job_title_short}) < n})

\* Lines 103-104: the rows of one role, sorted ascending by count.
SubOfRole(tab, role) ==
    LET mine == Take(tab, {i \in 1..Len(tab) : tab[i].job_title_short = role})
        less == [a \in Range(mine), b \in Range(mine) |-> a.count < b.count]
    IN  StableSort(mine, less)

\* The order of the numbers of s.
IntOrder(s) ==
    [a \in Range(s), b \in Range(s) |-> a < b]

\* The order of the strings of s.
StrOrder(s) ==
    [a \in Range(s), b \in Range(s) |-> StrLess(a, b)]

\* A median that takes a null salary for zero.
MedianNullAsZero(cells) ==
    LET raw == Tuple([i \in 1..Len(cells) |->
                    IF IsNull(cells[i]) THEN 0 ELSE Get(cells[i])])
        vals == StableSort(raw, IntOrder(raw))
        n == Len(vals)
    IN  IF n = 0 THEN NaN
        ELSE Val((vals[(n + 1) \div 2] + vals[(n + 2) \div 2]) \div 2)

\* Series.median() over the non-null values: the middle value, or the mean of
\* the two middle values (exact here: every salary of the model is even);
\* NaN when there is no value.
Median(cells) ==
    LET live == Take(cells, {i \in 1..Len(cells) : ~IsNull(cells[i])})
        raw == Tuple([i \in 1..Len(live) |-> Get(live[i])])
        vals == StableSort(raw, IntOrder(raw))
        n == Len(vals)
    IN  IF n = 0 THEN NaN
        ELSE Val((vals[(n + 1) \div 2] + vals[(n + 2) \div 2]) \div 2)

\* groupby('job_title_short')['salary_year_avg'].median(): a group per
\* non-null title, sorted by title.
MedianByTitle(rows) ==
    LET live == Take(rows, {i \in 1..Len(rows) : ~IsNull(rows[i].job_title_short)})
        seen == FirstSeen(Tuple([i \in 1..Len(live) |->
                                Get(live[i].job_title_short)]))
        keys == StableSort(seen, StrOrder(seen))
    IN  Tuple([k \in 1..Len(keys) |->
            [job_title_short |-> keys[k],
             salary_year_avg |->
                 Median(Tuple([i \in 1..Len(live) |->
                     IF Get(live[i].job_title_short) = keys[k]
                     THEN live[i].salary_year_avg ELSE NaN]))]])

\* .sort_values(ascending=True) on medians: NaN last.
SortMedianAsc(tab) ==
    LET less == [a \in Range(tab), b \in Range(tab) |->
                /\ ~IsNull(a.salary_year_avg)
                      /\ \/ IsNull(b.salary_year_avg)
                         \/ Get(a.salary_year_avg) < Get(b.salary_year_avg)]
    IN  StableSort(tab, less)

\* str.contains('data analyst', case=False, na=False)
DataAnalystMask(frame) ==
    {i \in 1..Len(frame.rows) :
        /\ ~IsNull(frame.rows[i].job_title)
        /\ ContainsNoCase(Get(frame.rows[i].job_title), data_analyst_pat)}

\* dropna(subset=['salary_year_avg', 'job_skills'])
DropNa(frame) ==
    Filter(frame, {i \in 1..Len(frame.rows) :
        /\ ~IsNull(frame.rows[i].salary_year_avg)
        /\ ~IsNull(frame.rows[i].job_skills)})

\* A normalization that lower-cases and does not strip.
NormalizeSkillLowerOnly(cell) ==
    IF IsNull(cell) THEN NaN ELSE Val(Lower(Get(cell)))

\* .str.strip().str.lower() on one cell: NaN stays NaN.
NormalizeSkill(cell) ==
    IF IsNull(cell) THEN NaN ELSE Val(Lower(Strip(Get(cell))))

\* Line 160: the normalized column, assigned into the frame.
AssignNormalizedSkills(frame) ==
    Frame(frame.cols \cup {"job_skills"},
          Tuple([i \in 1..Len(frame.rows) |->
              [frame.rows[i] EXCEPT
                  !.job_skills = NormalizeSkill(frame.rows[i].job_skills)]]))

\* groupby('job_skills')['salary_year_avg'].median(): a group per non-null
\* skill, sorted by skill.
MedianBySkill(rows) ==
    LET live == Take(rows, {i \in 1..Len(rows) : ~IsNull(rows[i].job_skills)})
        seen == FirstSeen(Tuple([i \in 1..Len(live) |->
                                Get(live[i].job_skills)]))
        keys == StableSort(seen, StrOrder(seen))
    IN  Tuple([k \in 1..Len(keys) |->
            [job_skills |-> keys[k],
             salary_year_avg |->
                 Median(Tuple([i \in 1..Len(live) |->
                     IF Get(live[i].job_skills) = keys[k]
                     THEN live[i].salary_year_avg ELSE NaN]))]])

\* .sort_values(ascending=False) on medians: NaN last.
SortMedianDesc(tab) ==
    LET less == [a \in Range(tab), b \in Range(tab) |->
                /\ ~IsNull(a.salary_year_avg)
                      /\ \/ IsNull(b.salary_year_avg)
                         \/ Get(a.salary_year_avg) > Get(b.salary_year_avg)]
    IN  StableSort(tab, less)

----------------------------------------------------------------------------
(* DataFrame objects.  mem holds the DataFrame objects created so far; the  *)
(* names df, df_US, ... hold an index into mem (0: not bound).              *)

\* No new object: the result shares the object it was derived from.
SameFrameId(m, src) ==
    src

\* The object that an indexing, copy, explode or dropna of mem[src] returns:
\* a new one.
NewFrameId(m, src) ==
    Len(m) + 1

Store(m, id, frame) ==
    IF id = Len(m) + 1 THEN Append(m, frame) ELSE [m EXCEPT ![id] = frame]

----------------------------------------------------------------------------
(* The input files.  A file that cannot be read is [ok |-> FALSE]; a file   *)
(* that can holds a frame.  Each family is the sequences pre \o base \o     *)
(* post over a catalog of records, pre and post bounded in length, plus the *)
(* unreadable file and files that lack one column.                          *)

SeqsUpTo(S, n) ==
    UNION {[1..k -> S] : k \in 0..n}

Unreadable ==
    [ok |-> FALSE, frame |-> EmptyFrame]

DropColumn(rows, col) ==
    Frame(FileCols \ {col},
          Tuple([i \in 1..Len(rows) |->
              CASE col = "job_country" -> [rows[i] EXCEPT !.job_country = NaN]
                [] col = "job_posted_date" -> [rows[i] EXCEPT !.job_posted_date = NaN]
                [] col = "job_title" -> [rows[i] EXCEPT !.job_title = NaN]
                [] col = "job_title_short" -> [rows[i] EXCEPT !.job_title_short = NaN]
                [] col = "job_skills" -> [rows[i] EXCEPT !.job_skills = NaN]
                [] OTHER -> [rows[i] EXCEPT !.salary_year_avg = NaN]]))

FilesOf(catalog, base, maxExtra) ==
    {[ok |-> TRUE, frame |-> Frame(FileCols, pre \o base \o post)] :
        <<pre, post>> \in {pp \in SeqsUpTo(catalog, maxExtra) \X SeqsUpTo(catalog, maxExtra) :
                              /\ Len(pp[1]) + Len(pp[2]) <= maxExtra
                              /\ base = <<>> => pp[2] = <<>>}}
    \cup {Unreadable}
    \cup {[ok |-> TRUE, frame |-> DropColumn(rows, col)] :
            rows \in SeqsUpTo(catalog, 1), col \in FileCols}

\* The records of the general family.  The first three are the three-record
\* scenario of the top-skills aggregation.
Scenario ==
    <<Rec(Val(UnitedStates), Date(2023, 1, 15), Val(DataAnalyst), Val(DataAnalyst),
          Val(<<sk_sql, sk_excel>>), Val(90000)),
      Rec(Val(UnitedStates), Date(2023, 3, 2), Val(DataAnalyst), Val(DataAnalyst),
          Val(<<sk_sql>>), Val(110000)),
      Rec(Val(Canada), Date(2023, 3, 9), Val(DataAnalyst), Val(DataAnalyst),
          Val(<<sk_python>>), Val(95000))>>

Catalog ==
    Range(Scenario) \cup
    {Rec(Val(UnitedStates), NaN, Val(RawEngineer), Val(DataEngineer),
         Val(<<>>), NaN),
     Rec(Val(UnitedStates), Date(2022, 3, 20), Val(DataScientist), Val(DataScientist),
         NaN, Val(120000)),
     Rec(Val(UnitedStates), Date(2023, 12, 31), Val(RawEngineer), Val(DataEngineer),
         Val(<<sk_python, sk_sql, sk_aws, sk_spark, sk_java, sk_excel>>), Val(130000)),
     Rec(Val(UnitedStates), Date(2023, 1, 3), Val(RawMarketing), NaN,
         Val(<<sk_sql>>), Val(70000)),
     Rec(Val(UnitedStates), Date(2023, 12, 1), Val(BusinessAnalyst), Val(BusinessAnalyst),
         Val(<<sk_excel, sk_sql>>), NaN),
     Rec(Val(UnitedStates), Date(2023, 6, 7), Val(RawEngineer), Val(DataEngineer),
         Val(<<sk_sql, sk_java, sk_go>>), Val(100000))}

Files ==
    FilesOf(Catalog, <<>>, MaxRecords)

\* The family of the title rankings: eleven postings with eleven titles, and
\* a few more before and after them.
TitleRec(country, short, salary) ==
    Rec(Val(country), Date(2023, 5, 5), Val(short), Val(short), Val(<<sk_sql>>), salary)

TitleBase ==
    <<TitleRec(UnitedStates, SoftwareEngineer, Val(100000)),
      TitleRec(UnitedStates, DataAnalyst, Val(90000)),
      TitleRec(UnitedStates, SeniorDataScientist, Val(160000)),
      TitleRec(UnitedStates, DataEngineer, NaN),
      TitleRec(UnitedStates, BusinessAnalyst, Val(90000)),
      TitleRec(UnitedStates, DataScientist, Val(140000)),
      TitleRec(UnitedStates, CloudEngineer, Val(110000)),
      TitleRec(UnitedStates, SeniorDataAnalyst, Val(120000)),
      TitleRec(UnitedStates, MLEngineer, Val(150000)),
      TitleRec(UnitedStates, SeniorDataEngineer, Val(150000)),
      TitleRec(UnitedStates, BIDeveloper, Val(80000))>>

TitleCatalog ==
    {TitleRec(UnitedStates, DataArchitect, Val(170000)),
     TitleRec(Canada, DataArchitect, Val(20000)),
     TitleRec(UnitedStates, BIDeveloper, NaN),
     TitleRec(UnitedStates, DataAnalyst, Val(60000)),
     TitleRec(Canada, BIDeveloper, Val(40000)),
     Rec(Val(UnitedStates), NaN, NaN, NaN, NaN, Val(30000))}

TitleFiles ==
    FilesOf(TitleCatalog, TitleBase, MaxExtra)

\* The family of the top-paying skills: postings with raw titles that do or
\* do not contain the pattern, skill texts that differ in case and padding,
\* and one posting with eleven skills.
PayCatalog ==
    {Rec(Val(UnitedStates), Date(2023, 2, 1), Val(RawLeadDataAnalyst), Val(SeniorDataAnalyst),
         Val(<<sk_SQLpadded, sk_excel, sk_python, sk_r, sk_go, sk_sas,
               sk_git, sk_gcp, sk_vba, sk_dax, sk_c>>), Val(100000)),
     Rec(Val(UnitedStates), Date(2023, 2, 2), Val(RawMarketing), Val(DataAnalyst),
         Val(<<sk_sql, sk_PythonCap, sk_tableau>>), Val(80000)),
     Rec(Val(UnitedStates), Date(2023, 2, 3), Val(RawEngineer), Val(DataEngineer),
         Val(<<sk_sql, sk_aws>>), Val(200000)),
     Rec(Val(UnitedStates), Date(2023, 2, 4), Val(DataAnalyst), Val(DataAnalyst),
         Val(<<sk_sql>>), NaN),
     Rec(Val(UnitedStates), Date(2023, 2, 5), Val(DataAnalyst), Val(DataAnalyst),
         NaN, Val(90000)),
     Rec(Val(UnitedStates), Date(2023, 2, 6), Val(DataAnalyst), Val(DataAnalyst),
         Val(<<>>), Val(95000)),
     Rec(Val(Canada), Date(2023, 2, 7), Val(DataAnalyst), Val(DataAnalyst),
         Val(<<sk_sql, sk_java>>), Val(300000)),
     Rec(Val(UnitedStates), Date(2023, 2, 8), NaN, Val(DataAnalyst),
         Val(<<sk_sql>>), Val(50000)),
     Rec(Val(UnitedStates), Date(2023, 2, 9), Val(DataAnalyst), Val(DataAnalyst),
         Val(<<sk_sql, sk_spark, sk_sql>>), Val(120000))}

PayFiles ==
    FilesOf(PayCatalog, <<>>, MaxPayRecords)

----------------------------------------------------------------------------
(* Program constants. *)

\* Line 43: head(10)
TopTitlesN ==
    10

\* Line 68: the explicit role list.
RoleList ==
    <<DataAnalyst, DataEngineer, DataScientist>>

\* Line 90: head(5)
TopSkillsK ==
    5

\* Line 131
top_n ==
    10

\* Line 173: head(10)
TopPayingK ==
    10

----------------------------------------------------------------------------
(* The run. *)

VARIABLES
    file,                    \* the parquet file on disk: [ok, frame]
    pc,                      \* the section of the script that runs next
    error,                   \* the line that raised, 0 when none did
    images,                  \* the chart files saved
    defined,                 \* the names bound so far
    mem,                     \* the DataFrame objects
    df, df_US, df_top_roles, df_roles, df_DA, df_DA_exploded,
    monthly_trends, top_roles, skill_counts, top5_per_role, sub,
    top_jobs, df_grouped, df_analyst_skill_salary, df_top_analyst_skills

vars ==
    <<file, pc, error, images, defined, mem,
      df, df_US, df_top_roles, df_roles, df_DA, df_DA_exploded,
      monthly_trends, top_roles, skill_counts, top5_per_role, sub,
      top_jobs, df_grouped, df_analyst_skill_salary, df_top_analyst_skills>>

varsA ==
    <<df_US, monthly_trends>>

varsB ==
    <<top_roles>>

varsC ==
    <<df_top_roles, skill_counts, top5_per_role, sub>>

varsD ==
    <<top_jobs, df_roles, df_grouped>>

varsE ==
    <<df_DA, df_DA_exploded, df_analyst_skill_salary, df_top_analyst_skills>>

InitOf(files) ==
    /\ file \in files
    /\ pc = "load"
    /\ error = 0
    /\ images = {}
    /\ defined = {}
    /\ mem = <<>>
    /\ df = 0 /\ df_US = 0 /\ df_top_roles = 0
    /\ df_roles = 0 /\ df_DA = 0 /\ df_DA_exploded = 0
    /\ monthly_trends = <<>>
    /\ top_roles = <<>>
    /\ skill_counts = <<>>
    /\ top5_per_role = <<>>
    /\ sub = <<>>
    /\ top_jobs = <<>>
    /\ df_grouped = <<>>
    /\ df_analyst_skill_salary = <<>>
    /\ df_top_analyst_skills = <<>>

\* An uncaught exception at the given line ends the run.
Raise(line) ==
    /\ pc' = "failed"
    /\ error' = line

\* Line 11: pd.read_parquet
Load ==
    /\ pc = "load"
    /\ IF file.ok
       THEN /\ mem' = Append(mem, file.frame)
            /\ df' = Len(mem) + 1
            /\ defined' = defined \cup {"df"}
            /\ pc' = "monthly"
            /\ UNCHANGED error
       ELSE /\ Raise(11)
            /\ UNCHANGED <<mem, df, defined>>
    /\ UNCHANGED <<file, images, varsA, varsB, varsC, varsD, varsE>>

\* Lines 16-38: monthly job postings trend.
MonthlyTrend ==
    /\ pc = "monthly"
    /\ IF "job_country" \notin mem[df].cols
       THEN /\ Raise(16)
            /\ UNCHANGED <<mem, defined, images, varsA>>
       ELSE LET id == NewFrameId(mem, df)
                m1 == Store(mem, id, Filter(mem[df], CountryMask(mem[df])))
            IN  IF "job_posted_date" \notin m1[id].cols
                THEN /\ Raise(18)
                     /\ mem' = m1
                     /\ df_US' = id
                     /\ defined' = defined \cup {"df_US"}
                     /\ UNCHANGED <<images, monthly_trends>>
                ELSE LET m2 == [m1 EXCEPT ![id] = AssignMonthColumns(m1[id])]
                     IN  /\ mem' = m2
                         /\ df_US' = id
                         /\ monthly_trends' =
                                SortByMonthNum(MonthlyGroupSize(m2[id].rows))
                         /\ defined' = defined \cup {"df_US", "monthly_trends"}
                         /\ images' = images \cup {"monthly_job_postings_trend.png"}
                         /\ pc' = "titles"
                         /\ UNCHANGED error
    /\ UNCHANGED <<file, df, varsB, varsC, varsD, varsE>>

\* Lines 43-63: top 10 job titles.
TopTitles ==
    /\ pc = "titles"
    /\ IF "job_title_short" \notin mem[df].cols
       THEN /\ Raise(43)
            /\ UNCHANGED <<defined, images, varsB>>
       ELSE /\ top_roles' = SortCountsDesc(
                    Head_n(ValueCounts(TitleShortColumn(mem[df])), TopTitlesN))
            /\ defined' = defined \cup {"top_roles"}
            /\ images' = images \cup {"top_10_job_titles.png"}
            /\ pc' = "skills"
            /\ UNCHANGED error
    /\ UNCHANGED <<file, mem, df, varsA, varsC, varsD, varsE>>

\* Lines 68-125: top 5 skills of each role of the role list.
TopSkills ==
    /\ pc = "skills"
    /\ top_roles' = RoleList
    /\ LET id1 == NewFrameId(mem, df_US)
           m1 == Store(mem, id1,
                       Filter(mem[df_US], TitleIsInMask(mem[df_US], RoleList)))
       IN  IF "job_skills" \notin m1[id1].cols
           THEN /\ Raise(77)
                /\ mem' = m1
                /\ df_top_roles' = id1
                /\ defined' = defined \cup {"df_top_roles"}
                /\ UNCHANGED <<images, skill_counts, top5_per_role, sub>>
           ELSE LET id2 == NewFrameId(m1, id1)
                    m2 == Store(m1, id2, Explode(m1[id1]))
                    counts == SkillGroupSize(m2[id2].rows)
                    top5 == GroupHead(SortTitleThenCountDesc(counts), TopSkillsK)
                IN  /\ mem' = m2
                    /\ df_top_roles' = id2
                    /\ skill_counts' = counts
                    /\ top5_per_role' = top5
                    /\ sub' = Tuple([k \in 1..Len(RoleList) |->
                                  SubOfRole(top5, RoleList[k])])
                    /\ defined' = defined \cup {"df_top_roles", "skill_counts",
                                                "top5_per_role", "sub"}
                    /\ images' = images \cup {"top_5_skills_top3_role.png"}
                    /\ pc' = "salary"
                    /\ UNCHANGED error
    /\ UNCHANGED <<file, df, varsA, varsD, varsE>>

\* Lines 131-148: salary distribution by job title.
SalaryByTitle ==
    /\ pc = "salary"
    /\ LET counts == Head_n(ValueCounts(TitleShortColumn(mem[df_US])), top_n)
           jobs == Tuple([k \in 1..Len(counts) |-> counts[k].job_title_short])
           id == NewFrameId(mem, df_US)
           m1 == Store(mem, id, Filter(mem[df_US], TitleIsInMask(mem[df_US], jobs)))
       IN  /\ top_jobs' = jobs
           /\ mem' = m1
           /\ df_roles' = id
           /\ IF "salary_year_avg" \notin m1[id].cols
              THEN /\ Raise(136)
                   /\ defined' = defined \cup {"top_jobs", "df_roles"}
                   /\ UNCHANGED <<images, df_grouped>>
              ELSE /\ df_grouped' = SortMedianAsc(MedianByTitle(m1[id].rows))
                   /\ defined' = defined \cup {"top_jobs", "df_roles", "df_grouped"}
                   /\ images' = images \cup {"salary_distribution_by_job_title.png"}
                   /\ pc' = "paying"
                   /\ UNCHANGED error
    /\ UNCHANGED <<file, df, varsA, varsB, varsC, varsE>>

\* Lines 153-192: top paying skills for data analysts.
TopPayingSkills ==
    /\ pc = "paying"
    /\ IF "job_title" \notin mem[df_US].cols
       THEN /\ Raise(153)
            /\ UNCHANGED <<mem, defined, images, varsE>>
       ELSE LET id1 == NewFrameId(mem, df_US)
                m1 == Store(mem, id1, Filter(mem[df_US], DataAnalystMask(mem[df_US])))
                id2 == NewFrameId(m1, id1)
                m2 == Store(m1, id2, DropNa(m1[id1]))
                id3 == NewFrameId(m2, id2)
                m3 == Store(m2, id3, Explode(m2[id2]))
                m4 == [m3 EXCEPT ![id3] = AssignNormalizedSkills(m3[id3])]
                ranked == SortMedianDesc(MedianBySkill(m4[id3].rows))
            IN  /\ mem' = m4
                /\ df_DA' = id2
                /\ df_DA_exploded' = id3
                /\ df_analyst_skill_salary' = ranked
                /\ df_top_analyst_skills' = Head_n(ranked, TopPayingK)
                /\ defined' = defined \cup {"df_DA", "df_DA_exploded",
                                  "df_analyst_skill_salary", "df_top_analyst_skills"}
                /\ images' = images \cup {"highest_paying_skills_data_analysts.png"}
                /\ pc' = "done"
                /\ UNCHANGED error
    /\ UNCHANGED <<file, df, varsA, varsB, varsC, varsD>>

Next ==
    \/ Load
    \/ MonthlyTrend
    \/ TopTitles
    \/ TopSkills
    \/ SalaryByTitle
    \/ TopPayingSkills

Init ==
    InitOf(Files)

Spec ==
    Init /\ [][Next]_vars

InitTitles ==
    InitOf(TitleFiles)

SpecTitles ==
    InitTitles /\ [][Next]_vars

InitPay ==
    InitOf(PayFiles)

SpecPay ==
    InitPay /\ [][Next]_vars

----------------------------------------------------------------------------
(* The claims.  They are stated over D, the records of the file, counted    *)
(* directly and not through the operators of the pipeline.                  *)

D ==
    file.frame.rows

Has(name) ==
    name \in defined

InUS(i) ==
    D[i].job_country = Val(UnitedStates)

US ==
    {i \in 1..Len(D) : InUS(i)}

Column(tab, F(_)) ==
    Tuple([k \in 1..Len(tab) |-> F(tab[k])])

NonIncreasing(ns) ==
    \A k \in 1..(Len(ns) - 1) : ns[k] >= ns[k + 1]

NonDecreasing(ns) ==
    \A k \in 1..(Len(ns) - 1) : ns[k] <= ns[k + 1]

Injective(s) ==
    \A j, k \in 1..Len(s) : s[j] = s[k] => j = k

\* The value of rank r (from 0) among the values V(x), x in the finite set I.
RankVal(I, V(_), r) ==
    LET x == CHOOSE y \in I :
                 /\ Cardinality({z \in I : V(z) < V(y)}) <= r
                 /\ Cardinality({z \in I : V(z) <= V(y)}) > r
    IN  V(x)

\* The median of the values V(x), x in I, as a cell: NaN when I is empty.
MedianOver(I, V(_)) ==
    LET n == Cardinality(I)
    IN  IF n = 0 THEN NaN
        ELSE Val((RankVal(I, V, (n - 1) \div 2) + RankVal(I, V, n \div 2)) \div 2)

PostingsOf(e) ==
    e.postings

MonthNumOf(e) ==
    e.month_num

CountOf(e) ==
    e.count

TitleOf(e) ==
    e.job_title_short

SkillOf(e) ==
    e.job_skills

USDated ==
    {i \in US : ~IsNull(D[i].job_posted_date)}

\* C1: the monthly counts sum to the number of United States records with a
\* posted date, and each month's count is the number of those records posted
\* in that month: other countries and null dates are counted nowhere.
C1_MonthlyCountsSum ==
    Has("monthly_trends") =>
        /\ SumSeq(Column(monthly_trends, PostingsOf)) = Cardinality(USDated)
        /\ \A k \in 1..Len(monthly_trends) :
              monthly_trends[k].postings =
                 Cardinality({i \in USDated :
                     Get(D[i].job_posted_date).month = monthly_trends[k].month_num})

C1_Witness ==
    /\ Has("monthly_trends")
    /\ Len(monthly_trends) >= 1
    /\ \E i \in 1..Len(D) : ~InUS(i) /\ ~IsNull(D[i].job_posted_date)
    /\ \E i \in US : IsNull(D[i].job_posted_date)

\* C2: the monthly table has one entry for exactly the months that occur among
\* the dated United States records, strictly ascending by month number, each
\* labelled with its month and with a count of at least one.
C2_MonthsPresentAscending ==
    Has("monthly_trends") =>
        /\ Range(Column(monthly_trends, MonthNumOf)) =
              {Get(D[i].job_posted_date).month : i \in USDated}
        /\ \A k \in 1..(Len(monthly_trends) - 1) :
              monthly_trends[k].month_num < monthly_trends[k + 1].month_num
        /\ \A k \in 1..Len(monthly_trends) :
              /\ monthly_trends[k].month_num \in 1..12
              /\ monthly_trends[k].month = MonthAbbr[monthly_trends[k].month_num]
              /\ monthly_trends[k].postings >= 1

\* Calendar order differs here from count order, and one month holds
\* postings of two years.
C2_Witness ==
    /\ Has("monthly_trends")
    /\ Len(monthly_trends) >= 2
    /\ monthly_trends[1].postings < monthly_trends[2].postings
    /\ \E i, j \in USDated :
          /\ Get(D[i].job_posted_date).month = Get(D[j].job_posted_date).month
          /\ Get(D[i].job_posted_date).year # Get(D[j].job_posted_date).year

AllTitles ==
    {Get(D[i].job_title_short) : i \in {j \in 1..Len(D) : ~IsNull(D[j].job_title_short)}}

TitleCount(t) ==
    Cardinality({i \in 1..Len(D) : D[i].job_title_short = Val(t)})

\* C3: between the title ranking and its reuse as the role list, top_roles
\* holds min(10, number of distinct titles) distinct titles with their counts
\* over the whole dataset, in non-increasing order of count, and no title left
\* out has a strictly higher count than a title kept.
C3_TopTitles ==
    pc = "skills" =>
        /\ Len(top_roles) = Min(TopTitlesN, Cardinality(AllTitles))
        /\ Injective(Column(top_roles, TitleOf))
        /\ \A k \in 1..Len(top_roles) :
              /\ top_roles[k].job_title_short \in AllTitles
              /\ top_roles[k].count = TitleCount(top_roles[k].job_title_short)
        /\ NonIncreasing(Column(top_roles, CountOf))
        /\ \A t \in AllTitles \ Range(Column(top_roles, TitleOf)) :
              \A k \in 1..Len(top_roles) : TitleCount(t) <= top_roles[k].count

\* More than ten titles, unequal counts, and a kept title whose count includes
\* a record of another country.
C3_Witness ==
    /\ pc = "skills"
    /\ Cardinality(AllTitles) > TopTitlesN
    /\ top_roles[1].count > top_roles[Len(top_roles)].count
    /\ \E k \in 1..Len(top_roles) : \E i \in 1..Len(D) :
          ~InUS(i) /\ D[i].job_title_short = Val(top_roles[k].job_title_short)

SkillsOf(i) ==
    IF IsNull(D[i].job_skills) THEN <<>> ELSE Get(D[i].job_skills)

RoleRecords(role) ==
    {i \in US : D[i].job_title_short = Val(role)}

RoleSkills(role) ==
    UNION {Range(SkillsOf(i)) : i \in RoleRecords(role)}

RoleSkillCount(role, skill) ==
    Cardinality({ik \in UNION {{i} \X (1..Len(SkillsOf(i))) : i \in RoleRecords(role)} :
                    SkillsOf(ik[1])[ik[2]] = skill})

PosInSkillCounts(role, skill) ==
    CHOOSE p \in 1..Len(skill_counts) :
        /\ skill_counts[p].job_title_short = role
        /\ skill_counts[p].job_skills = skill

USTitles ==
    {Get(D[i].job_title_short) : i \in {j \in US : ~IsNull(D[j].job_title_short)}}

USTitleCount(t) ==
    Cardinality({i \in US : D[i].job_title_short = Val(t)})

SalaryOf(i) ==
    Get(D[i].salary_year_avg)

\* C5: the median table holds min(10, number of titles) distinct titles of the
\* United States subset; each is a title that fewer than ten titles outnumber
\* there (records without a salary counted), and its median is the median of
\* the non-null salaries of its United States records, NaN when it has none.
C5_MedianSalaryTopTitles ==
    Has("df_grouped") =>
        /\ Len(df_grouped) = Min(top_n, Cardinality(USTitles))
        /\ Injective(Column(df_grouped, TitleOf))
        /\ \A k \in 1..Len(df_grouped) :
           LET t == df_grouped[k].job_title_short
           IN  /\ t \in USTitles
               /\ Cardinality({u \in USTitles : USTitleCount(u) > USTitleCount(t)}) < top_n
               /\ df_grouped[k].salary_year_avg =
                     MedianOver({i \in US : /\ D[i].job_title_short = Val(t)
                                            /\ ~IsNull(D[i].salary_year_avg)}, SalaryOf)

\* More than ten titles in the subset, and a kept title with a null and a
\* non-null salary.
C5_Witness ==
    /\ Has("df_grouped")
    /\ Cardinality(USTitles) > top_n
    /\ Len(df_grouped) = top_n
    /\ \E k \in 1..Len(df_grouped) :
          /\ ~IsNull(df_grouped[k].salary_year_avg)
          /\ \E i \in US : /\ D[i].job_title_short = Val(df_grouped[k].job_title_short)
                           /\ IsNull(D[i].salary_year_avg)

\* The observations (record, position in its skill list) of the top-paying
\* skills aggregation.
PayObs ==
    UNION {{i} \X (1..Len(SkillsOf(i))) :
              i \in {j \in US : /\ ~IsNull(D[j].job_title)
                                /\ ContainsNoCase(Get(D[j].job_title), data_analyst_pat)
                                /\ ~IsNull(D[j].salary_year_avg)
                                /\ ~IsNull(D[j].job_skills)}}

ObsSkill(ik) ==
    SkillsOf(ik[1])[ik[2]]

ObsSalary(ik) ==
    SalaryOf(ik[1])

\* Two texts differ only in case and in surrounding whitespace.
SameSkill(a, b) ==
    LET x == Strip(a)
        y == Strip(b)
    IN  /\ Len(x) = Len(y)
        /\ \A i \in 1..Len(x) : LowerChar(x[i]) = LowerChar(y[i])

\* C6: every observation falls in exactly one group of the ranking, the group
\* of the texts that differ from it only in case and surrounding whitespace;
\* the median of a group is taken over all its observations; the result holds
\* the first min(10, number of groups) groups, in non-increasing order of
\* median.
C6_TopPayingSkillsMerged ==
    Has("df_top_analyst_skills") =>
        /\ \A ik \in PayObs :
              Cardinality({k \in 1..Len(df_analyst_skill_salary) :
                  SameSkill(df_analyst_skill_salary[k].job_skills, ObsSkill(ik))}) = 1
        /\ \A k \in 1..Len(df_analyst_skill_salary) :
              /\ \E ik \in PayObs :
                    SameSkill(df_analyst_skill_salary[k].job_skills, ObsSkill(ik))
              /\ df_analyst_skill_salary[k].salary_year_avg =
                    MedianOver({ik \in PayObs :
                        SameSkill(df_analyst_skill_salary[k].job_skills, ObsSkill(ik))},
                        ObsSalary)
        /\ Len(df_top_analyst_skills) = Min(TopPayingK, Len(df_analyst_skill_salary))
        /\ df_top_analyst_skills =
              SubSeq(df_analyst_skill_salary, 1, Len(df_top_analyst_skills))
        /\ \A k \in 1..(Len(df_analyst_skill_salary) - 1) :
              Get(df_analyst_skill_salary[k].salary_year_avg)
                 >= Get(df_analyst_skill_salary[k + 1].salary_year_avg)

\* More than ten groups, and two observations of one group whose texts differ.
C6_Witness ==
    /\ Has("df_top_analyst_skills")
    /\ Len(df_analyst_skill_salary) > TopPayingK
    /\ Len(df_top_analyst_skills) = TopPayingK
    /\ \E ik, jl \in PayObs :
          /\ ObsSkill(ik) # ObsSkill(jl)
          /\ SameSkill(ObsSkill(ik), ObsSkill(jl))
          /\ ObsSalary(ik) # ObsSalary(jl)
          /\ \E k \in 1..Len(df_top_analyst_skills) :
                SameSkill(df_top_analyst_skills[k].job_skills, ObsSkill(ik))

RoleMatching ==
    {i \in US : IsIn(D[i].job_title_short, RoleList)}

SkillListLengths ==
    SumSeq(Tuple([i \in 1..Len(D) |->
        IF i \in RoleMatching THEN Len(SkillsOf(i)) ELSE 0]))

\* C7: the (role, skill) observations counted in skill_counts, and the rows of
\* the expanded frame that hold a skill, number the sum of the skill-list
\* lengths of the United States records whose title is in the role list.
C7_ObservationsEqualListLengths ==
    Has("skill_counts") =>
        /\ SumSeq(Column(skill_counts, CountOf)) = SkillListLengths
        /\ Cardinality({j \in 1..Len(mem[df_top_roles].rows) :
              ~IsNull(mem[df_top_roles].rows[j].job_skills)}) = SkillListLengths

\* A matching record without skills, one with three or more, and a record
\* with skills that matches no role or not the country.
C7_Witness ==
    /\ Has("skill_counts")
    /\ \E i \in RoleMatching : SkillsOf(i) = <<>>
    /\ \E i \in RoleMatching : Len(SkillsOf(i)) >= 3
    /\ \E i \in (1..Len(D)) \ RoleMatching : Len(SkillsOf(i)) >= 1

\* C8: once loaded, the DataFrame df is what was read from the file, in every
\* state of the run.
C8_InputNeverMutated ==
    Has("df") => mem[df] = file.frame

\* The run has ended after columns were added to, and rows filtered from,
\* the derived frames.
C8_Witness ==
    /\ pc = "done"
    /\ Len(D) >= 2
    /\ mem[df_US].rows # mem[df].rows
    /\ Len(mem[df_DA_exploded].rows) >= 1
    /\ mem[df_DA_exploded].rows # mem[df_DA].rows

EmptyInput ==
    file.ok /\ file.frame.cols = FileCols /\ file.frame.rows = <<>>

\* C9: on a file with the required columns and no record, no line raises and
\* each of the five aggregations yields an empty table.
C9_EmptyInputEmptyTables ==
    EmptyInput =>
        /\ pc # "failed"
        /\ error = 0
        /\ Has("monthly_trends") => monthly_trends = <<>>
        /\ pc = "skills" => top_roles = <<>>
        /\ Has("sub") => top5_per_role = <<>> /\ \A k \in 1..Len(sub) : sub[k] = <<>>
        /\ Has("df_grouped") => df_grouped = <<>>
        /\ Has("df_top_analyst_skills") => df_top_analyst_skills = <<>>

C9_Witness ==
    /\ EmptyInput
    /\ pc = "done"
    /\ {"monthly_trends", "top_roles", "sub", "df_grouped",
        "df_top_analyst_skills"} \subseteq defined

Malformed ==
    ~file.ok \/ file.frame.cols # FileCols

\* C10: a run on a file that cannot be loaded, or that lacks a required
\* column, fails before any aggregation is computed and any chart is saved.
C10_MalformedFailsFirst ==
    Malformed =>
        /\ pc \in {"load", "monthly", "failed"}
        /\ images = {}
        /\ defined \cap {"monthly_trends", "top_roles", "skill_counts", "top5_per_role",
                         "sub", "df_grouped", "df_analyst_skill_salary",
                         "df_top_analyst_skills"} = {}

====
